---- MODULE Spec2Model ----
(***************************************************************************)
(* Model of src/controller.py: ShardHandler, a shard / replica manager     *)
(* that keeps its shards as text files in the directory "data" and its     *)
(* mapping in "mapping.json".                                              *)
(*                                                                         *)
(* Strings (file names, dictionary keys, replica levels) are sequences of  *)
(* one-character strings, so that str(), int(), the regular expression,    *)
(* the substring tests and the string comparison of max() are computed as  *)
(* Python computes them.                                                   *)
(***************************************************************************)
EXTENDS Integers, Sequences, FiniteSets, TLC

\* ------------------------------------------------------------------ bounds
MaxLen == 4       \* longest input data
MaxShards == 3    \* largest shard count built or grown to
MaxRep == 10      \* largest replication level created
MaxSyncRep == 3   \* largest replication level created where sync_replication runs

Letters == <<"a", "b", "c", "d", "e", "f", "g", "h", "i", "j">>

\* the inputs of build_shards: data of pairwise distinct characters, so that
\* a lost, duplicated or misplaced character always shows
DataSet == {SubSeq(Letters, 1, k) : k \in 0..MaxLen}
\* the counts of build_shards: a negative one, zero and the positive ones
CountSet == (-1)..MaxShards

VARIABLES
  mapping,     \* self.mapping: the dict, as the sequence of its items in insertion order
  mapfile,     \* mapping.json: [exists, content]
  dataExists,  \* whether the directory "data" exists
  files,       \* the directory "data": file name -> file content
  lastOp,      \* the method called last
  outcome,     \* how that call ended
  argCount,    \* the count the last call handed to _generate_sharded_data
  argData,     \* the data the last call handed to _generate_sharded_data
  spliced,     \* spliced_data of the last call
  orig         \* the data of the last build_shards that got past the guard

vars == <<mapping, mapfile, dataExists, files, lastOp, outcome,
          argCount, argData, spliced, orig>>

\* ------------------------------------------------------- Python strings
Digits == <<"0", "1", "2", "3", "4", "5", "6", "7", "8", "9">>

IsDigit(c) == \E d \in 1..10 : Digits[d] = c

DigitVal(c) == (CHOOSE d \in 1..10 : Digits[d] = c) - 1

\* str(n) for n >= 0
RECURSIVE str(_)
str(n) == IF n < 10 THEN <<Digits[n + 1]>>
          ELSE str(n \div 10) \o <<Digits[(n % 10) + 1]>>

\* int(s) for a string of digits
RECURSIVE int(_)
int(s) == IF Len(s) = 0 THEN 0
          ELSE 10 * int(SubSeq(s, 1, Len(s) - 1)) + DigitVal(s[Len(s)])

\* s < t for two strings of digits: the first differing character decides,
\* a proper prefix is the smaller
RECURSIVE StrLess(_, _)
StrLess(s, t) ==
  IF Len(t) = 0 THEN FALSE
  ELSE IF Len(s) = 0 THEN TRUE
  ELSE IF s[1] # t[1] THEN DigitVal(s[1]) < DigitVal(t[1])
  ELSE StrLess(Tail(s), Tail(t))

\* max() of a non-empty collection of strings
StrMax(S) == CHOOSE m \in S : \A t \in S : ~StrLess(m, t)

\* sub in s
Contains(sub, s) ==
  \E i \in 1..(Len(s) - Len(sub) + 1) : SubSeq(s, i, i + Len(sub) - 1) = sub

\* max() of a non-empty list of ints
MaxInt(S) == CHOOSE m \in S : \A k \in S : k <= m

\* data[a:b] for 0 <= a, 0 <= b
Slice(data, a, b) ==
  SubSeq(data, a + 1, IF b < Len(data) THEN b ELSE Len(data))

\* divmod(a, b) for a >= 0, b # 0: floor division, remainder with the sign of b
DivMod(a, b) ==
  IF b > 0 THEN <<a \div b, a % b>>
  ELSE LET q == 0 - ((a + (0 - b) - 1) \div (0 - b))
       IN <<q, a - b * q>>

\* ---------------------------------------------------------- file names
Txt == <<".", "t", "x", "t">>

\* f"data/{num}.txt", relative to the directory
ShardFile(key) == key \o Txt

\* f"data/{file_name}-{highest_rep}.txt", relative to the directory
RepFile(file_name, rep) == file_name \o <<"-">> \o str(rep) \o Txt

\* f1[:-4]
StripExt(f1) == SubSeq(f1, 1, Len(f1) - 4)

NoFiles == [n \in {} |-> <<>>]

\* ------------------------------------------------------------ the mapping
\* write_map that leaves the file as it is
write_map_skipped(m) == mapfile

\* json.dump / json.load keep the items and their order
write_map(m) == [exists |-> TRUE, content |-> m]

load_map == IF mapfile.exists THEN mapfile.content ELSE <<>>

\* list(self.mapping.keys())
Keys(m) == [i \in 1..Len(m) |-> m[i].key]

\* self.mapping.update({key: {...}}): an existing key keeps its place
MapUpdate(m, key, start, end) ==
  LET rec == [key |-> key, start |-> start, end |-> end] IN
  IF \E i \in 1..Len(m) : m[i].key = key
  THEN [i \in 1..Len(m) |-> IF m[i].key = key THEN rec ELSE m[i]]
  ELSE Append(m, rec)

\* --------------------------------------------------------- the operations
\* open(name, 'w').write(content)
WriteFile(fs, name, content) ==
  [n \in (DOMAIN fs) \cup {name} |-> IF n = name THEN content ELSE fs[n]]

\* _generate_sharded_data without the remainder
generate_no_remainder(count, data) ==
  LET splicenum == DivMod(Len(data), count)[1]
  IN [i \in 1..(IF count > 0 THEN count ELSE 0) |->
        Slice(data, splicenum * (i - 1), splicenum * i)]

\* _generate_sharded_data(count, data), count # 0
\* range(count) is empty for count < 0, and rem <= 0 then
_generate_sharded_data(count, data) ==
  LET dm == DivMod(Len(data), count)
      splicenum == dm[1]
      rem == dm[2]
      result == [i \in 1..(IF count > 0 THEN count ELSE 0) |->
                   Slice(data, splicenum * (i - 1), splicenum * i)]
  IN IF rem > 0
     THEN [result EXCEPT ![Len(result)] =
             @ \o SubSeq(data, Len(data) - rem + 1, Len(data))]
     ELSE result

\* _write_shard that adds the item without writing the file
write_shard_no_file(st, num, data) ==
  [st EXCEPT !.mapping = MapUpdate(st.mapping, str(num),
                                   num * Len(data), (num + 1) * Len(data)),
             !.dataExists = TRUE]

\* _write_shard that numbers the shards from 1
write_shard_next_key(st, num, data) ==
  [mapping |-> MapUpdate(st.mapping, str(num + 1),
                         num * Len(data), (num + 1) * Len(data)),
   files |-> WriteFile(st.files, ShardFile(str(num + 1)), data),
   dataExists |-> TRUE]

\* _write_shard(num, data) on st = [mapping, files, dataExists]
_write_shard(st, num, data) ==
  [mapping |-> MapUpdate(st.mapping, str(num),
                         num * Len(data), (num + 1) * Len(data)),
   files |-> WriteFile(st.files, ShardFile(str(num)), data),
   dataExists |-> TRUE]

\* for num, d in enumerate(spliced_data): self._write_shard(num, d)
\* from index k on
RECURSIVE WriteShards(_, _, _)
WriteShards(st, spliced_data, k) ==
  IF k > Len(spliced_data) THEN st
  ELSE WriteShards(_write_shard(st, k - 1, spliced_data[k]), spliced_data, k + 1)

\* load_data_from_shards opens every file of the mapping
LoadOk(m, fs) == \A i \in 1..Len(m) : ShardFile(m[i].key) \in DOMAIN fs

\* load_data_from_shards that joins the shards last to first
RECURSIVE load_reversed(_, _)
load_reversed(m, fs) ==
  IF Len(m) = 0 THEN <<>>
  ELSE load_reversed(Tail(m), fs) \o fs[ShardFile(m[1].key)]

\* load_data_from_shards(): the files of the mapping's keys, in the order of
\* the dict, joined
RECURSIVE load_data_from_shards(_, _)
load_data_from_shards(m, fs) ==
  IF Len(m) = 0 THEN <<>>
  ELSE fs[ShardFile(m[1].key)] \o load_data_from_shards(Tail(m), fs)

\* build_shards(count, data) on st = [mapping, files, dataExists] with the
\* mapping file mf; gives the state after it and how it ended
build_shards(st, mf, count, data) ==
  IF st.mapping # <<>>
  THEN [st |-> st, mf |-> mf, outcome |-> "returned_message",
        split |-> FALSE, spliced |-> <<>>]
  ELSE IF count = 0
  THEN [st |-> st, mf |-> mf, outcome |-> "ZeroDivisionError",
        split |-> TRUE, spliced |-> <<>>]
  ELSE LET spliced_data == _generate_sharded_data(count, data)
           after == WriteShards(st, spliced_data, 1)
       IN [st |-> after, mf |-> write_map(after.mapping), outcome |-> "returned",
           split |-> TRUE, spliced |-> spliced_data]

\* the ways a call ends with an exception
Raised == {"ZeroDivisionError", "ValueError", "FileNotFoundError"}

Cur == [mapping |-> mapping, files |-> files, dataExists |-> dataExists]

Init ==
  /\ mapping = <<>>
  /\ mapfile = [exists |-> FALSE, content |-> <<>>]
  /\ dataExists = FALSE
  /\ files = NoFiles
  /\ lastOp = "init"
  /\ outcome = "returned"
  /\ argCount = 0
  /\ argData = <<>>
  /\ spliced = <<>>
  /\ orig = <<>>

\* the step of a build_shards(count, data) that ends as r
BuildStep(r, count, data) ==
  /\ mapping' = r.st.mapping
  /\ files' = r.st.files
  /\ dataExists' = r.st.dataExists
  /\ mapfile' = r.mf
  /\ lastOp' = "build_shards"
  /\ outcome' = r.outcome
  /\ argCount' = IF r.split THEN count ELSE 0
  /\ argData' = IF r.split THEN data ELSE <<>>
  /\ spliced' = r.spliced
  /\ orig' = IF r.outcome = "returned" THEN data ELSE orig

\* with a mapping the call ends the same way whatever its arguments are
BuildShards ==
  IF mapping # <<>>
  THEN \E r \in {build_shards(Cur, mapfile, 1, <<>>)} : BuildStep(r, 1, <<>>)
  ELSE \E count \in CountSet, data \in DataSet :
         \E r \in {build_shards(Cur, mapfile, count, data)} :
           BuildStep(r, count, data)

\* a call that raised, and wrote the mapping file all the same
fails_writes_map(op, exc, m) ==
  /\ mapping' = m
  /\ mapfile' = write_map(m)
  /\ lastOp' = op
  /\ outcome' = exc
  /\ argCount' = 0
  /\ argData' = <<>>
  /\ spliced' = <<>>
  /\ UNCHANGED <<dataExists, files, orig>>

\* a call that raised before it changed anything but self.mapping
Fails(op, exc, m) ==
  /\ mapping' = m
  /\ lastOp' = op
  /\ outcome' = exc
  /\ argCount' = 0
  /\ argData' = <<>>
  /\ spliced' = <<>>
  /\ UNCHANGED <<mapfile, dataExists, files, orig>>

\* new_shard_num of an add_shard that grows by nothing
add_shard_num_plus_one(keys) == str(MaxInt(keys) + 1)

\* new_shard_num = str(max(keys) + 2)
add_shard_num(keys) == str(MaxInt(keys) + 2)

AddShard ==
  LET m == load_map IN
  IF ~LoadOk(m, files) THEN Fails("add_shard", "FileNotFoundError", m)
  ELSE IF m = <<>> THEN Fails("add_shard", "ValueError", m)
  ELSE
    \E data \in {load_data_from_shards(m, files)},
       new_shard_num \in {add_shard_num({int(Keys(m)[i]) : i \in 1..Len(m)})} :
    \E spliced_data \in {_generate_sharded_data(int(new_shard_num), data)} :
    \E after \in {WriteShards([Cur EXCEPT !.mapping = m], spliced_data, 1)} :
       /\ int(new_shard_num) <= MaxShards
       /\ mapping' = after.mapping
       /\ files' = after.files
       /\ dataExists' = after.dataExists
       /\ mapfile' = write_map(after.mapping)
       /\ lastOp' = "add_shard"
       /\ outcome' = "returned"
       /\ argCount' = int(new_shard_num)
       /\ argData' = data
       /\ spliced' = spliced_data
       /\ UNCHANGED orig

\* new_shard_num of a remove_shard that removes nothing
remove_shard_num_keep(keys) == str(MaxInt(keys) + 1)

\* new_shard_num = str(max(keys))
remove_shard_num(keys) == str(MaxInt(keys))

\* the state after self.mapping = {} without rmtree("./data")
Cleared_keeps_files ==
  [mapping |-> <<>>, files |-> files, dataExists |-> dataExists]

\* the state after rmtree("./data") and self.mapping = {}
Cleared == [mapping |-> <<>>, files |-> NoFiles, dataExists |-> FALSE]

RemoveShard ==
  LET m == load_map IN
  IF ~LoadOk(m, files) THEN Fails("remove_shard", "FileNotFoundError", m)
  ELSE IF m = <<>> THEN Fails("remove_shard", "ValueError", m)
  ELSE
    \E data \in {load_data_from_shards(m, files)},
       new_shard_num \in {remove_shard_num({int(Keys(m)[i]) : i \in 1..Len(m)})} :
    \* rmtree("./data"); self.mapping = {}; build_shards, whose
    \* ZeroDivisionError is caught and printed
    \E r \in {build_shards(Cleared, mapfile, int(new_shard_num), data)} :
       /\ mapping' = r.st.mapping
       /\ files' = r.st.files
       /\ dataExists' = r.st.dataExists
       /\ mapfile' = write_map(r.st.mapping)
       /\ lastOp' = "remove_shard"
       /\ outcome' = "returned"
       /\ argCount' = int(new_shard_num)
       /\ argData' = data
       /\ spliced' = r.spliced
       /\ UNCHANGED orig

\* ------------------------------------------------------------ replication
\* the files of the directory that are no replica: '-' not in f1
Primaries(fs) == {f \in DOMAIN fs : ~Contains(<<"-">>, f)}

\* the longest run of digits of t from index i on
DigitRun(t, i) ==
  LET stops == {j \in i..Len(t) : ~IsDigit(t[j])}
      stop == IF stops = {} THEN Len(t) + 1
              ELSE CHOOSE j \in stops : \A k \in stops : j <= k
  IN SubSeq(t, i, stop - 1)

\* re.findall("\-(\d+)", t): the digits after every '-' that a digit follows
Findall(t) ==
  {DigitRun(t, i + 1) : i \in {j \in 1..(Len(t) - 1) : t[j] = "-" /\ IsDigit(t[j + 1])}}

\* the replica levels in the file names of the directory, as strings
Reps(fs) ==
  UNION {Findall(t) : t \in {f \in DOMAIN fs : Contains(<<"-">>, f)}}

\* current_replication(): max() of the levels, which are strings
current_replication(fs) == StrMax({<<"0">>} \cup Reps(fs))

\* copyfile(f"data/{f1}", f"data/{file_name}-{highest_rep}.txt") for every
\* f1 of todo; the copies are of primaries, which no copy overwrites
RECURSIVE CopyAll(_, _, _)
CopyAll(fs, todo, highest_rep) ==
  IF todo = {} THEN fs
  ELSE LET f1 == CHOOSE f \in todo : TRUE
       IN CopyAll(WriteFile(fs, RepFile(StripExt(f1), highest_rep), fs[f1]),
                  todo \ {f1}, highest_rep)

AddReplication ==
  IF ~dataExists THEN Fails("add_replication", "FileNotFoundError", mapping)
  ELSE
    \E highest_rep \in {int(current_replication(files)) + 1} :
       /\ highest_rep <= MaxRep
       /\ files' = CopyAll(files, Primaries(files), highest_rep)
       /\ mapfile' = write_map(mapping)
       /\ lastOp' = "add_replication"
       /\ outcome' = "returned"
       /\ argCount' = 0
       /\ argData' = <<>>
       /\ spliced' = <<>>
       /\ UNCHANGED <<mapping, dataExists, orig>>

RemoveReplication ==
  IF ~dataExists THEN Fails("remove_replication", "FileNotFoundError", mapping)
  ELSE
    \E highest_rep_num \in {current_replication(files)} :
    \E kept \in {{f \in DOMAIN files : ~Contains(<<"-">> \o highest_rep_num, f)}} :
       /\ files' = [n \in kept |-> files[n]]
       /\ lastOp' = "remove_replication"
       /\ outcome' = "returned"
       /\ argCount' = 0
       /\ argData' = <<>>
       /\ spliced' = <<>>
       /\ UNCHANGED <<mapping, mapfile, dataExists, orig>>

Next ==
  \/ BuildShards
  \/ AddShard
  \/ RemoveShard
  \/ AddReplication
  \/ RemoveReplication

Spec == Init /\ [][Next]_vars

\* ------------------------------------------------------------- properties
\* ''.join(parts)
RECURSIVE Join(_)
Join(parts) == IF Len(parts) = 0 THEN <<>> ELSE parts[1] \o Join(Tail(parts))

\* the shard ids of the mapping are 0..n-1 in this order
IdsAre(m, n) == Len(m) = n /\ \A i \in 1..n : m[i].key = str(i - 1)

\* the replica level in the name of the replica file f
LevelOf(f) == int(CHOOSE r \in Findall(f) : TRUE)

\* the replica files of the directory
Replicas(fs) == {f \in DOMAIN fs : Contains(<<"-">>, f)}

\* the numerically greatest replica level of the directory, 0 without replicas
HighestLevel(fs) == MaxInt({0} \cup {LevelOf(f) : f \in Replicas(fs)})

\* ------------------------------------------------------- sync_replication
\* the orders in which a set of n keys may be iterated
Orders(n) == {o \in [1..n -> 1..n] : \A i, j \in 1..n : o[i] = o[j] => i = j}

\* the inner loop of sync_replication that reads the replicas of shard 0 for
\* every key
RECURSIVE sync_key_of_first(_, _, _, _)
sync_key_of_first(fs, key, x, levels) ==
  IF x > levels THEN [files |-> fs, outcome |-> "returned"]
  ELSE IF RepFile(str(0), x) \notin DOMAIN fs
  THEN [files |-> fs, outcome |-> "FileNotFoundError"]
  ELSE sync_key_of_first(WriteFile(fs, ShardFile(key), fs[RepFile(str(0), x)]),
                         key, x + 1, levels)

\* for x in range(levels): copyfile(f"data/{key}-{x+1}.txt", f"data/{key}.txt"),
\* from level x on; copyfile raises when the replica is missing
RECURSIVE sync_key(_, _, _, _)
sync_key(fs, key, x, levels) ==
  IF x > levels THEN [files |-> fs, outcome |-> "returned"]
  ELSE IF RepFile(key, x) \notin DOMAIN fs
  THEN [files |-> fs, outcome |-> "FileNotFoundError"]
  ELSE sync_key(WriteFile(fs, ShardFile(key), fs[RepFile(key, x)]),
                key, x + 1, levels)

\* sync_replication() on the keys of m, iterated in the order o from its k-th
\* on; current_replication() is read again for every key
RECURSIVE sync_replication(_, _, _, _)
sync_replication(fs, m, o, k) ==
  IF k > Len(m) THEN [files |-> fs, outcome |-> "returned"]
  ELSE LET r == sync_key(fs, m[o[k]].key, 1, int(current_replication(fs)))
       IN IF r.outcome # "returned" THEN r
          ELSE sync_replication(r.files, m, o, k + 1)

\* set(self.mapping.keys()) is iterated in an order that the hash seed of the
\* run decides
SyncReplication ==
  \E r \in {sync_replication(files, mapping, o, 1) : o \in Orders(Len(mapping))} :
    \* stale replicas may make the data longer with every call
    /\ Len(load_data_from_shards(mapping, r.files)) <= MaxLen
    /\ files' = r.files
    /\ lastOp' = "sync_replication"
    /\ outcome' = r.outcome
    /\ argCount' = 0
    /\ argData' = <<>>
    /\ spliced' = <<>>
    /\ UNCHANGED <<mapping, mapfile, dataExists, orig>>

\* add_replication up to the level MaxSyncRep
AddReplicationSync ==
  /\ AddReplication
  /\ HighestLevel(files') <= MaxSyncRep

\* the methods with sync_replication
NextSync ==
  \/ BuildShards
  \/ AddShard
  \/ RemoveShard
  \/ AddReplicationSync
  \/ RemoveReplication
  \/ SyncReplication

SpecSync == Init /\ [][NextSync]_vars

\* the last call split data into a positive number of pieces
SplitDone ==
  /\ lastOp \in {"build_shards", "add_shard", "remove_shard"}
  /\ outcome = "returned"
  /\ argCount > 0

\* C1: once build_shards(count, data) with count >= 1 has built the shards,
\* load_data_from_shards() gives exactly that data after every sequence of
\* add_shard, remove_shard (on two shards or more), add_replication and
\* remove_replication.
C1_DataKept ==
  mapping # <<>> =>
    /\ LoadOk(mapping, files)
    /\ load_data_from_shards(mapping, files) = orig

\* C1 witness: shards that were grown while replicas exist, of data that
\* does not divide evenly
C1_Witness ==
  /\ lastOp = "add_shard"
  /\ Len(mapping) = 3
  /\ Len(orig) = 4
  /\ Replicas(files) # {}
  /\ load_data_from_shards(mapping, files) = orig

\* C2: build_shards(count, data) on an empty mapping with
\* 1 <= count <= len(data), then load_data_from_shards(), gives data.
C2_BuildThenLoad ==
  (/\ lastOp = "build_shards"
   /\ outcome = "returned"
   /\ argCount >= 1
   /\ argCount <= Len(argData)) =>
    /\ IdsAre(mapping, argCount)
    /\ LoadOk(mapping, files)
    /\ load_data_from_shards(mapping, files) = argData

\* C2 witness: the four characters built as two shards of two
C2_Witness ==
  /\ lastOp = "build_shards"
  /\ outcome = "returned"
  /\ argCount = 2
  /\ argData = <<"a", "b", "c", "d">>
  /\ LoadOk(mapping, files)
  /\ files[ShardFile(str(0))] = <<"a", "b">>
  /\ files[ShardFile(str(1))] = <<"c", "d">>

\* C3: _generate_sharded_data(count, data) with count > 0 and non-empty data
\* gives count slices that join to data; the first count - 1 have the length
\* q = len(data) div count and the last has q + (len(data) mod count).
C3_SplitCovers ==
  (SplitDone /\ argData # <<>>) =>
    LET q == Len(argData) \div argCount
        r == Len(argData) % argCount
    IN /\ Len(spliced) = argCount
       /\ Join(spliced) = argData
       /\ \A i \in 1..(argCount - 1) : Len(spliced[i]) = q
       /\ Len(spliced[argCount]) = q + r

\* C3 witness: four characters in three slices, the remainder on the last
C3_Witness ==
  /\ SplitDone
  /\ argCount = 3
  /\ argData = <<"a", "b", "c", "d">>
  /\ spliced = << <<"a">>, <<"b">>, <<"c", "d">> >>

\* C4: remove_shard() with exactly one shard ends with an error and leaves
\* the shard's file, the mapping and the mapping file as they were.
C4_LastShardKept ==
  [][(lastOp' = "remove_shard" /\ Len(mapping) = 1) =>
       /\ outcome' \in Raised
       /\ mapping' = mapping
       /\ mapfile' = mapfile
       /\ files' = files
       /\ dataExists' = dataExists]_vars

\* C5: with a replication level L >= 1, every shard of the mapping has a
\* replica file at every level 1..L.
C5_ReplicasEverywhere ==
  dataExists =>
    LET L == int(current_replication(files))
    IN \A i \in 1..Len(mapping), lvl \in 1..L :
         RepFile(mapping[i].key, lvl) \in DOMAIN files

\* C6: in a built state add_replication() raises what
\* current_replication() returns by exactly one.
C6_AddRaisesLevel ==
  [][(lastOp' = "add_replication" /\ outcome' = "returned" /\ mapping # <<>>) =>
       int(current_replication(files')) = int(current_replication(files)) + 1]_vars

\* C7: at a replication level L >= 1 remove_replication() deletes exactly
\* the replica files of the numerically highest level, and
\* current_replication() returns L - 1 afterwards.
C7_RemoveHighestLevel ==
  [][(lastOp' = "remove_replication" /\ outcome' = "returned"
      /\ HighestLevel(files) >= 1) =>
       LET L == HighestLevel(files)
           gone == {f \in Replicas(files) : LevelOf(f) = L}
       IN /\ DOMAIN files' = (DOMAIN files) \ gone
          /\ \A f \in DOMAIN files' : files'[f] = files[f]
          /\ int(current_replication(files')) = L - 1]_vars

\* C8: remove_replication() with primary files only ends with an error and
\* leaves the files and the mapping as they were.
C8_NothingToRemove ==
  [][(lastOp' = "remove_replication" /\ dataExists /\ Replicas(files) = {}) =>
       /\ outcome' \in Raised
       /\ files' = files
       /\ mapping' = mapping
       /\ mapfile' = mapfile]_vars

\* C9: build_shards(count, data) with a non-empty mapping ends with an
\* error, not with a normal return, and writes nothing.
C9_AlreadySharded ==
  [][(lastOp' = "build_shards" /\ mapping # <<>>) =>
       /\ outcome' \in Raised
       /\ files' = files
       /\ mapping' = mapping
       /\ mapfile' = mapfile]_vars

\* C10: add_shard() on the shards 0..n-1, n >= 1, without replicas leaves the
\* n + 1 = max(old ids) + 2 shards 0..n, each file rewritten with its slice
\* of the data split anew, and load_data_from_shards() gives the same data.
C10_AddShardGrows ==
  [][(/\ lastOp' = "add_shard"
      /\ outcome' = "returned"
      /\ Len(mapping) >= 1
      /\ IdsAre(mapping, Len(mapping))
      /\ Replicas(files) = {}) =>
       LET n == Len(mapping)
           data == load_data_from_shards(mapping, files)
           pieces == _generate_sharded_data(n + 1, data)
       IN /\ n + 1 = MaxInt({int(mapping[i].key) : i \in 1..n}) + 2
          /\ IdsAre(mapping', n + 1)
          /\ \A i \in 1..(n + 1) :
               /\ ShardFile(str(i - 1)) \in DOMAIN files'
               /\ files'[ShardFile(str(i - 1))] = pieces[i]
          /\ load_data_from_shards(mapping', files') = data
          /\ data = orig]_vars

\* C10 witness: three shards without replicas, grown from two
C10_Witness ==
  /\ lastOp = "add_shard"
  /\ outcome = "returned"
  /\ IdsAre(mapping, 3)
  /\ Replicas(files) = {}
  /\ Len(orig) = 4

\* the keys of the mapping m
KeySet(m) == {m[i].key : i \in 1..Len(m)}

\* every shard of m has a replica file at every level 1..levels
AllReplicated(m, fs, levels) ==
  \A key \in KeySet(m), lvl \in 1..levels : RepFile(key, lvl) \in DOMAIN fs

\* the numerically highest level at which the shard key has a replica file
HighestOf(fs, key) ==
  MaxInt({lvl \in 1..HighestLevel(fs) : RepFile(key, lvl) \in DOMAIN fs})

\* C11: after a completed build_shards, add_shard or remove_shard the start
\* and end of every mapping entry are the shard's byte range in the data:
\* start is the length of the shards before it, end is start plus its length,
\* and data[start:end] is its content.
C11_TrueRanges ==
  (SplitDone /\ LoadOk(mapping, files)) =>
    \A i \in 1..Len(mapping) :
      LET before == Len(load_data_from_shards(SubSeq(mapping, 1, i - 1), files))
          content == files[ShardFile(mapping[i].key)]
      IN /\ mapping[i].start = before
         /\ mapping[i].end = before + Len(content)
         /\ SubSeq(orig, mapping[i].start + 1, mapping[i].end) = content

\* C12: in every state reachable by build_shards, add_shard, remove_shard,
\* add_replication, remove_replication and sync_replication the shard ids of
\* the mapping are exactly 0..n-1, n the number of its entries.
C12_ContiguousIds == IdsAre(mapping, Len(mapping))

\* C12 witness: two shards left by remove_shard, no third id
C12_Witness ==
  /\ lastOp = "remove_shard"
  /\ outcome = "returned"
  /\ IdsAre(mapping, 2)
  /\ Len(orig) = 4

\* C13: if every shard has a replica at every level 1..L, with
\* L = current_replication() >= 1, then sync_replication() returns and leaves
\* every primary with the content of the shard's highest replica, and changes
\* no replica and no mapping entry.
C13_SyncTakesHighest ==
  [][(/\ lastOp' = "sync_replication"
      /\ dataExists
      /\ int(current_replication(files)) >= 1
      /\ AllReplicated(mapping, files, int(current_replication(files)))) =>
       /\ outcome' = "returned"
       /\ DOMAIN files' = DOMAIN files
       /\ \A key \in KeySet(mapping) :
            files'[ShardFile(key)] = files[RepFile(key, HighestOf(files, key))]
       /\ \A f \in Replicas(files) : files'[f] = files[f]
       /\ mapping' = mapping
       /\ mapfile' = mapfile]_vars

\* C13 witness: sync_replication has returned on two shards or more of
\* different content with two levels or more each
C13_Witness ==
  /\ lastOp = "sync_replication"
  /\ outcome = "returned"
  /\ Len(mapping) >= 2
  /\ HighestLevel(files) >= 2
  /\ AllReplicated(mapping, files, HighestLevel(files))
  /\ files[ShardFile(str(0))] # files[ShardFile(str(1))]
  /\ \A key \in KeySet(mapping) :
       files[ShardFile(key)] = files[RepFile(key, HighestOf(files, key))]

\* C14: in every state reached from a build_shards by add_shard, remove_shard,
\* add_replication and remove_replication, sync_replication() returns without
\* an error, in whatever order it takes the keys, and
\* load_data_from_shards() gives the original data after it.
C14_SyncKeepsData ==
  mapping # <<>> =>
    \A o \in Orders(Len(mapping)) :
      LET r == sync_replication(files, mapping, o, 1)
      IN /\ r.outcome = "returned"
         /\ load_data_from_shards(mapping, r.files) = orig

\* C15: current_replication() returns the numerically greatest level of the
\* replica files, and 0 without replica files.
C15_NumericMax ==
  dataExists => int(current_replication(files)) = HighestLevel(files)

\* C16: build_shards(count, data) with count <= 0 ends with an error, writes
\* no shard, adds no mapping entry and leaves the mapping file as it was.
C16_CountRejected ==
  [][(lastOp' = "build_shards" /\ mapping = <<>> /\ argCount' <= 0) =>
       /\ outcome' \in Raised
       /\ files' = files
       /\ mapping' = mapping
       /\ mapfile' = mapfile]_vars

\* C17: remove_shard() on the shards 0..n-1, n >= 2, leaves the
\* n - 1 = max(old ids) shards 0..n-2 in the mapping and exactly their n - 1
\* primary files in the directory, and load_data_from_shards() gives the same
\* data as before.
C17_RemoveShardShrinks ==
  [][(/\ lastOp' = "remove_shard"
      /\ outcome' = "returned"
      /\ Len(mapping) >= 2
      /\ IdsAre(mapping, Len(mapping))
      /\ LoadOk(mapping, files)) =>
       LET n == Len(mapping)
       IN /\ n - 1 = MaxInt({int(mapping[i].key) : i \in 1..n})
          /\ IdsAre(mapping', n - 1)
          /\ Primaries(files') = {ShardFile(str(i)) : i \in 0..(n - 2)}
          /\ Cardinality(Primaries(files')) = n - 1
          /\ ShardFile(str(n - 1)) \notin DOMAIN files'
          /\ load_data_from_shards(mapping', files')
               = load_data_from_shards(mapping, files)]_vars

\* C17 witness: two shards and their two files left of three
C17_Witness ==
  /\ lastOp = "remove_shard"
  /\ outcome = "returned"
  /\ argCount = 2
  /\ IdsAre(mapping, 2)
  /\ Cardinality(Primaries(files)) = 2
  /\ Len(orig) = 3

C19_StoreMatchesMapping ==
  /\ Primaries(files) = {ShardFile(key) : key \in KeySet(mapping)}
  /\ LoadOk(mapping, files)
  /\ load_map = mapping

\* C19 witness: sync_replication has raised on a shard without replica, and
\* files and mapping still match
C19_Witness ==
  /\ lastOp = "sync_replication"
  /\ outcome = "FileNotFoundError"
  /\ Len(mapping) = 3
  /\ Primaries(files) = {ShardFile(key) : key \in KeySet(mapping)}
  /\ load_map = mapping

\* C20: remove_shard() on two shards or more leaves no replica file, so that
\* current_replication() returns 0; add_shard() leaves every replica file and
\* its content as it was and creates no replica file.
C20_ReplicasOnRebalance ==
  [][/\ (lastOp' = "remove_shard" /\ outcome' = "returned" /\ Len(mapping) >= 2) =>
          /\ Replicas(files') = {}
          /\ current_replication(files') = <<"0">>
     /\ (lastOp' = "add_shard" /\ outcome' = "returned") =>
          /\ Replicas(files') = Replicas(files)
          /\ \A f \in Replicas(files) : files'[f] = files[f]
          /\ \A lvl \in 1..HighestLevel(files') :
               RepFile(str(Len(mapping)), lvl) \notin DOMAIN files']_vars

\* C20 witness: the replicas of two levels of shard 0 are still there after
\* add_shard, and the new shard 2 has none
C20_Witness ==
  /\ lastOp = "add_shard"
  /\ outcome = "returned"
  /\ IdsAre(mapping, 3)
  /\ RepFile(str(0), 1) \in DOMAIN files
  /\ RepFile(str(0), 2) \in DOMAIN files
  /\ \A lvl \in 1..HighestLevel(files) : RepFile(str(2), lvl) \notin DOMAIN files

====
